---- MODULE Spec2Model ----
(***************************************************************************)
(* A model of the Fix evaluation core (src/src/main.rs): the object/name   *)
(* data model, the accessibility conversions, footprint and eq metadata,   *)
(* make_err, and the think / execute / eval reduction engine as a          *)
(* small-step machine with an explicit call stack.                         *)
(***************************************************************************)
EXTENDS Integers, Sequences, FiniteSets, TLC

\* ------------------------------------------------------------------------
\* Program constants
\* ------------------------------------------------------------------------
PAGE_SIZE == 65536
HANDLE_SIZE == 32
\* capacity of the inline storage of BlobName::Literal, [u8; 30]
LITERAL_CAPACITY == 30
\* number of values of a u8 (the Literal length field, `as u8`)
U8_RANGE == 256
\* a u32 is kept as two 16-bit limbs [hi, lo]; LIMB is 2^16
LIMB == 65536

\* ------------------------------------------------------------------------
\* Bounds of the model
\* ------------------------------------------------------------------------
\* longest tree drawn as an input
MaxLen == 2
\* most think calls followed in one run
MaxThink == 4
\* messages handed to make_err run to LITERAL_CAPACITY + MaxMsgExtra bytes
MaxMsgExtra == 4
\* length in bytes of the largest blob named
MaxBlobLen == 1073741824
\* most elements of a tree handed to the footprint computation
MaxFpElems == 3

\* ------------------------------------------------------------------------
\* u32 arithmetic on limbs
\* ------------------------------------------------------------------------
div_ceil(a, b) == (a + b - 1) \div b

\* `n as u32` for a usize n (truncation to the low 32 bits)
as_u32(n) == [hi |-> (n \div LIMB) % LIMB, lo |-> n % LIMB]

U32_MAX == [hi |-> LIMB - 1, lo |-> LIMB - 1]
U32_ZERO == [hi |-> 0, lo |-> 0]

\* the 33-bit sum of two u32, as [hi, lo] with hi possibly >= LIMB
wide_add(a, b) ==
  LET lo == a.lo + b.lo
  IN  [hi |-> a.hi + b.hi + (lo \div LIMB), lo |-> lo % LIMB]

add_overflows(a, b) == wide_add(a, b).hi >= LIMB

saturating_add(a, b) ==
  IF add_overflows(a, b) THEN U32_MAX ELSE wide_add(a, b)

wrapping_add(a, b) ==
  [hi |-> wide_add(a, b).hi % LIMB, lo |-> wide_add(a, b).lo]

u32_le(a, b) == a.hi < b.hi \/ (a.hi = b.hi /\ a.lo <= b.lo)

\* ------------------------------------------------------------------------
\* Constructors of the enums
\* ------------------------------------------------------------------------
Literal(storage, length) == [k |-> "Literal", storage |-> storage, length |-> length]
BName(ptr, length) == [k |-> "Name", ptr |-> ptr, length |-> length]

RefBlob(b) == [k |-> "Blob", v |-> b]
RefTree(t) == [k |-> "Tree", v |-> t]
ObjBlob(b) == [k |-> "Blob", v |-> b]
ObjTree(t) == [k |-> "Tree", v |-> t]
DataRef(r) == [k |-> "Ref", v |-> r]
DataObject(o) == [k |-> "Object", v |-> o]

Identification(d) == [k |-> "Identification", v |-> d]
Selection(t) == [k |-> "Selection", v |-> t]
Application(t) == [k |-> "Application", v |-> t]

Encode(thunk, accessibility) == [thunk |-> thunk, accessibility |-> accessibility]

HandleData(d) == [ty |-> "Handle", k |-> "Data", v |-> d]
HandleThunk(t) == [ty |-> "Handle", k |-> "Thunk", v |-> t]
HandleEncode(e) == [ty |-> "Handle", k |-> "Encode", v |-> e]
ValueData(d) == [ty |-> "Value", k |-> "Data", v |-> d]
ValueThunk(t) == [ty |-> "Value", k |-> "Thunk", v |-> t]
RuntimeData(d) == [ty |-> "RuntimeValue", k |-> "Data", v |-> d]
RuntimeThunk(t) == [ty |-> "RuntimeValue", k |-> "Thunk", v |-> t]

Ok(x) == [ok |-> TRUE, v |-> x]
Err(d) == [ok |-> FALSE, v |-> d]

\* ------------------------------------------------------------------------
\* The storage backend (unimplemented in the source): content addressing.
\* A pointer is modelled by the content it names.
\* ------------------------------------------------------------------------
Pointer_of(content) == content
TreeName_load(t) == t.name
create_tag == FALSE

\* ------------------------------------------------------------------------
\* BlobName
\* ------------------------------------------------------------------------
BlobName_size(b) == b.length

BlobName_footprint(b) == as_u32(div_ceil(BlobName_size(b), PAGE_SIZE))

\* &storage[0..length] panics when length exceeds the storage
BlobName_load_panics(b) == b.k = "Literal" /\ b.length > Len(b.storage)

BlobName_load(b) ==
  IF b.k = "Literal" THEN SubSeq(b.storage, 1, b.length)
  ELSE <<b.ptr, b.length>>

\* the name of loaded blob content
BlobName_name(blob, orig) ==
  IF orig.k = "Literal"
  THEN Literal(blob \o [i \in 1..(LITERAL_CAPACITY - Len(blob)) |-> 0], Len(blob))
  ELSE BName(blob[1], blob[2])

BlobName_eq(x, y) == BlobName_load(x) = BlobName_load(y)

\* ------------------------------------------------------------------------
\* Metadata of handles: footprint, is_eq, relax; TreeName::create
\* ------------------------------------------------------------------------
Data_footprint(d) ==
  IF d.k = "Object" THEN
    IF d.v.k = "Blob" THEN BlobName_footprint(d.v.v) ELSE d.v.v.footprint
  ELSE U32_ZERO

HandleType_footprint(h) ==
  IF h.k = "Data" THEN Data_footprint(h.v) ELSE U32_ZERO

RECURSIVE fold_footprint(_, _)
fold_footprint(treedata, acc) ==
  IF treedata = <<>> THEN acc
  ELSE fold_footprint(Tail(treedata),
                      saturating_add(acc, HandleType_footprint(Head(treedata))))

create_base(treedata) == as_u32(div_ceil(Len(treedata) * HANDLE_SIZE, PAGE_SIZE))

\* `base + fold` is a plain u32 addition: it overflows when the saturated
\* sum leaves no room for the base
create_footprint_overflows(treedata) ==
  add_overflows(create_base(treedata), fold_footprint(treedata, U32_ZERO))

create_footprint(treedata) ==
  wrapping_add(create_base(treedata), fold_footprint(treedata, U32_ZERO))

Ref_is_eq(r) == IF r.k = "Blob" THEN TRUE ELSE r.v.eq

RECURSIVE TreeName_create(_)
RECURSIVE TreeName_relax(_)
RECURSIVE HandleType_relax(_)
RECURSIVE HandleType_is_eq(_)
RECURSIVE Object_lower(_)

Object_is_eq(o) == Ref_is_eq(Object_lower(o))

Data_is_eq(d) == IF d.k = "Object" THEN Object_is_eq(d.v) ELSE Ref_is_eq(d.v)

\* a variant in which only an Encode is not eq
HandleType_is_eq_thunk(h) ==
  IF h.k = "Data" THEN Data_is_eq(h.v) ELSE h.k = "Thunk"

HandleType_is_eq(h) == IF h.k = "Data" THEN Data_is_eq(h.v) ELSE FALSE

create_eq(treedata) == \A i \in 1..Len(treedata) : HandleType_is_eq(treedata[i])

TreeName_create(treedata) ==
  [name |-> Pointer_of(treedata),
   size |-> Len(treedata),
   footprint |-> create_footprint(treedata),
   eq |-> create_eq(treedata),
   tag |-> create_tag]

with_tag(t, tag) == [t EXCEPT !.tag = tag]

Value_relax(v) ==
  IF v.k = "Thunk" THEN HandleThunk(v.v)
  ELSE IF v.v.k = "Ref" THEN HandleData(DataRef(v.v.v))
  ELSE IF v.v.v.k = "Blob" THEN HandleData(DataObject(ObjBlob(v.v.v.v)))
  ELSE HandleData(DataObject(ObjTree(TreeName_relax(v.v.v.v))))

HandleType_relax(h) == IF h.ty = "Handle" THEN h ELSE Value_relax(h)

TreeName_relax(t) ==
  with_tag(TreeName_create([i \in 1..Len(TreeName_load(t)) |->
                              HandleType_relax(TreeName_load(t)[i])]),
           t.tag)

Object_lower(o) ==
  IF o.k = "Blob" THEN RefBlob(o.v) ELSE RefTree(TreeName_relax(o.v))

Object_relax(o) ==
  IF o.k = "Blob" THEN ObjBlob(o.v) ELSE ObjTree(TreeName_relax(o.v))

TreeName_name(tree) == TreeName_create(tree)

Ref_lift(r) ==
  IF r.k = "Blob" THEN ObjBlob(BlobName_name(BlobName_load(r.v), r.v))
  ELSE ObjTree(with_tag(TreeName_name(TreeName_load(r.v)), r.v.tag))

Data_lift(d) == IF d.k = "Object" THEN Object_relax(d.v) ELSE Ref_lift(d.v)

Data_lower(d) == IF d.k = "Object" THEN Object_lower(d.v) ELSE d.v

\* ------------------------------------------------------------------------
\* The calls of the storage backend (load, name, create) an operation makes
\* ------------------------------------------------------------------------
RECURSIVE TreeName_relax_calls(_)
RECURSIVE sum_calls(_, _)

is_accessible_tree(h) == h.k = "Data" /\ h.v.k = "Object" /\ h.v.v.k = "Tree"

\* Value::relax relaxes an accessible tree; Handle::relax is the identity
HandleType_relax_calls(h) ==
  IF h.ty = "Value" /\ is_accessible_tree(h)
  THEN TreeName_relax_calls(h.v.v.v) ELSE 0

\* Object::is_eq lowers the object first
HandleType_is_eq_calls(h) ==
  IF is_accessible_tree(h) THEN TreeName_relax_calls(h.v.v.v) ELSE 0

sum_calls(calls, n) == IF n = 0 THEN 0 ELSE calls[n] + sum_calls(calls, n - 1)

\* create itself, and the is_eq of every element
TreeName_create_calls(treedata) ==
  1 + sum_calls([i \in 1..Len(treedata) |-> HandleType_is_eq_calls(treedata[i])],
                Len(treedata))

\* self.load(), the relax of every element, and create
TreeName_relax_calls(t) ==
  LET tree == TreeName_load(t)
      relaxed == [i \in 1..Len(tree) |-> HandleType_relax(tree[i])]
  IN  1 + sum_calls([i \in 1..Len(tree) |-> HandleType_relax_calls(tree[i])],
                    Len(tree))
        + TreeName_create_calls(relaxed)

Object_lower_calls(o) ==
  IF o.k = "Blob" THEN 0 ELSE TreeName_relax_calls(o.v)

\* ------------------------------------------------------------------------
\* Equality (PartialEq)
\* ------------------------------------------------------------------------
\* todo!("equality of Eq TreeNames"): the names are equal iff the trees are
eq_TreeNames(a, b) == a.name = b.name

TreeName_eq(a, b) ==
  IF a.tag # b.tag THEN FALSE
  ELSE IF a.eq /\ b.eq THEN eq_TreeNames(a, b)
  ELSE FALSE

Data_eq(a, b) ==
  LET ra == Data_lower(a)
      rb == Data_lower(b)
  IN  IF ra.k = "Blob" /\ rb.k = "Blob" THEN BlobName_eq(ra.v, rb.v)
      ELSE IF ra.k = "Tree" /\ rb.k = "Tree" THEN TreeName_eq(ra.v, rb.v)
      ELSE FALSE

Handle_eq(a, b) ==
  IF a.k = "Data" /\ b.k = "Data" THEN Data_eq(a.v, b.v) ELSE FALSE

Value_eq(a, b) == Handle_eq(Value_relax(a), Value_relax(b))

\* ------------------------------------------------------------------------
\* The reduction engine, one step at a time.
\* A step operator gives the frames that replace the frame being resumed
\* (or, for a call, the frames pushed) and the next point of control.
\* ------------------------------------------------------------------------
Call(op, arg) == [op |-> op, arg |-> arg]
Return(res) == [op |-> "ret", arg |-> res]
Iterate == [op |-> "iter", arg |-> <<>>]

Step(frames, ctl) == [frames |-> frames, ctl |-> ctl]

\* the closure state of try_map: the iterator over self.load(), the vector
\* collected so far, and what is done with the new tree; started and results
\* record the calls of f made for this frame and what they returned
try_map_frame(self, then) ==
  [f |-> "try_map", self |-> self, rest |-> TreeName_load(self), vec |-> <<>>,
   then |-> then, started |-> <<>>, results |-> <<>>]

\* the self-evaluating handles of eval
eval_self(h) ==
  IF h.k = "Thunk" THEN ValueThunk(h.v) ELSE ValueData(h.v)

\* a variant that wraps an accessible tree without visiting its elements
eval_step_shallow(h) ==
  IF h.k = "Encode"
  THEN Step(<<[f |-> "eval_encode"]>>, Call("execute", h.v))
  ELSE Step(<<>>, Return(Ok(eval_self(h))))

\* a variant that forces a bare thunk as if it were an Encode
eval_step_forcing(h) ==
  IF h.k = "Encode"
  THEN Step(<<[f |-> "eval_encode"]>>, Call("execute", h.v))
  ELSE IF h.k = "Thunk"
  THEN Step(<<[f |-> "eval_encode"]>>, Call("execute", Encode(h.v, "None")))
  ELSE IF h.k = "Data" /\ h.v.k = "Object" /\ h.v.v.k = "Tree"
  THEN Step(<<try_map_frame(h.v.v.v, "eval")>>, Iterate)
  ELSE Step(<<>>, Return(Ok(eval_self(h))))

eval_step(h) ==
  IF h.k = "Encode"
  THEN Step(<<[f |-> "eval_encode"]>>, Call("execute", h.v))
  ELSE IF h.k = "Data" /\ h.v.k = "Object" /\ h.v.v.k = "Tree"
  THEN Step(<<try_map_frame(h.v.v.v, "eval")>>, Iterate)
  ELSE Step(<<>>, Return(Ok(eval_self(h))))

\* eval(Handle::Data(execute(e)?))?
eval_encode_resume(res) ==
  IF res.ok THEN Step(<<>>, Call("eval", HandleData(res.v)))
  ELSE Step(<<>>, Return(res))

execute_step(e) ==
  Step(<<[f |-> "execute", e |-> e, thunks |-> <<e.thunk>>, results |-> <<>>]>>,
       Call("think", e.thunk))

\* a variant with lift and lower exchanged
execute_adjust_swapped(data, accessibility) ==
  IF accessibility = "None" THEN data
  ELSE IF accessibility = "SomeTrue" THEN DataRef(Data_lower(data))
  ELSE DataObject(Data_lift(data))

execute_adjust(data, accessibility) ==
  IF accessibility = "None" THEN data
  ELSE IF accessibility = "SomeTrue" THEN DataObject(Data_lift(data))
  ELSE DataRef(Data_lower(data))

\* match think(thunk)? { Thunk(thought) => thunk = thought, Data(x) => break x }
execute_resume(frame, res) ==
  IF ~res.ok THEN Step(<<>>, Return(res))
  ELSE IF res.v.k = "Thunk"
  THEN Step(<<[frame EXCEPT !.thunks = Append(@, res.v.v),
                            !.results = Append(@, res)]>>,
            Call("think", res.v.v))
  ELSE Step(<<>>, Return(Ok(execute_adjust(res.v.v, frame.e.accessibility))))

\* a variant that hands the combination to apply as it is
think_step_unevaluated(thunk) ==
  IF thunk.k = "Application" THEN Step(<<>>, Call("apply", thunk.v))
  ELSE IF thunk.k = "Selection" THEN Step(<<>>, Call("select", thunk.v))
  ELSE Step(<<>>, Return(Ok(RuntimeData(thunk.v))))

think_step(thunk) ==
  IF thunk.k = "Application"
  THEN Step(<<try_map_frame(thunk.v, "apply")>>, Iterate)
  ELSE IF thunk.k = "Selection" THEN Step(<<>>, Call("select", thunk.v))
  ELSE Step(<<>>, Return(Ok(RuntimeData(thunk.v))))

\* .map(|vec| TreeName { tag: self.tag, ..TreeName::create(vec) })
try_map_finish(self, vec) == with_tag(TreeName_create(vec), self.tag)

\* a variant that visits the elements from the last to the first
try_map_iter_reversed(frame) ==
  IF frame.rest = <<>>
  THEN IF frame.then = "eval"
       THEN Step(<<>>, Return(Ok(ValueData(DataObject(ObjTree(
                           try_map_finish(frame.self, frame.vec)))))))
       ELSE Step(<<>>, Call("apply", try_map_finish(frame.self, frame.vec)))
  ELSE LET n == Len(frame.rest)
       IN  Step(<<[frame EXCEPT !.rest = SubSeq(@, 1, n - 1),
                                !.started = Append(@, frame.rest[n])]>>,
                Call("eval", frame.rest[n]))

\* the iterator is asked for its next element
try_map_iter(frame) ==
  IF frame.rest = <<>>
  THEN IF frame.then = "eval"
       THEN Step(<<>>, Return(Ok(ValueData(DataObject(ObjTree(
                           try_map_finish(frame.self, frame.vec)))))))
       ELSE Step(<<>>, Call("apply", try_map_finish(frame.self, frame.vec)))
  ELSE Step(<<[frame EXCEPT !.rest = Tail(@),
                            !.started = Append(@, Head(frame.rest))]>>,
            Call("eval", Head(frame.rest)))

\* a variant that drops a failed element and goes on
try_map_resume_skipping(frame, res) ==
  IF res.ok
  THEN Step(<<[frame EXCEPT !.vec = Append(@, res.v),
                            !.results = Append(@, res)]>>, Iterate)
  ELSE Step(<<[frame EXCEPT !.results = Append(@, res)]>>, Iterate)

\* collect::<Result<Vec<_>>>() takes the result of f for one element
try_map_resume(frame, res) ==
  IF res.ok
  THEN Step(<<[frame EXCEPT !.vec = Append(@, res.v),
                            !.results = Append(@, res)]>>, Iterate)
  ELSE Step(<<>>, Return(res))

\* ------------------------------------------------------------------------
\* Inputs and the behaviours of the collaborators apply and select
\* ------------------------------------------------------------------------
pad(bytes) == bytes \o [i \in 1..(LITERAL_CAPACITY - Len(bytes)) |-> 0]

B_ok == Literal(pad(<<111, 107>>), 2)
B_e1 == Literal(pad(<<101, 49>>), 2)
B_e2 == Literal(pad(<<101, 50>>), 2)

H_ref == HandleData(DataRef(RefBlob(B_ok)))
H_obj == HandleData(DataObject(ObjBlob(B_ok)))
H_thunk == HandleThunk(Identification(DataRef(RefBlob(B_ok))))
H_enc == HandleEncode(Encode(Identification(DataObject(ObjBlob(B_ok))), "None"))

T_spec == TreeName_create(<<H_ref>>)
T_inner == TreeName_create(<<H_enc, H_thunk>>)
T_encs == TreeName_create(<<H_enc>>)
T_plain == with_tag(TreeName_create(<<H_obj, H_ref>>), TRUE)

H_sel == HandleEncode(Encode(Selection(T_spec), "SomeTrue"))
H_tree == HandleData(DataObject(ObjTree(T_inner)))
H_eqtree == HandleData(DataObject(ObjTree(T_plain)))

Elems == {H_ref, H_thunk, H_enc, H_sel, H_tree, H_eqtree}

RECURSIVE SeqsUpTo(_, _)
SeqsUpTo(S, n) ==
  IF n = 0 THEN {<<>>}
  ELSE LET shorter == SeqsUpTo(S, n - 1)
       IN  shorter \cup {Append(s, e) : s \in shorter, e \in S}

Trees ==
  {with_tag(TreeName_create(s), tag) : s \in SeqsUpTo(Elems, MaxLen), tag \in BOOLEAN}

Accessibility == {"None", "SomeTrue", "SomeFalse"}

\* selection specifications: select is free in what it makes of them
Specs ==
  {with_tag(TreeName_create(s), tag) : s \in SeqsUpTo(Elems, 1), tag \in BOOLEAN}

Thunks ==
  {Application(t) : t \in Trees} \cup {Selection(t) : t \in Specs}
  \cup {Identification(DataObject(ObjTree(t))) : t \in Trees}
  \cup {Identification(DataRef(RefTree(t))) : t \in Trees}

Inputs ==
  Elems
  \cup {HandleData(DataObject(ObjTree(t))) : t \in Trees}
  \cup {HandleData(DataRef(RefTree(t))) : t \in Trees}
  \cup {HandleThunk(th) : th \in Thunks}
  \cup {HandleEncode(Encode(th, a)) : th \in Thunks, a \in Accessibility}

ApplyResults ==
  {Err(DataRef(RefBlob(B_e1))),
   Ok(RuntimeData(DataRef(RefBlob(B_ok)))),
   Ok(RuntimeData(DataObject(ObjTree(T_inner)))),
   Ok(RuntimeThunk(Identification(DataObject(ObjBlob(B_ok))))),
   Ok(RuntimeThunk(Application(T_spec)))}

SelectResults ==
  {Err(DataRef(RefBlob(B_e2))),
   Ok(RuntimeData(DataObject(ObjBlob(B_ok)))),
   Ok(RuntimeData(DataRef(RefTree(T_encs)))),
   Ok(RuntimeThunk(Selection(T_spec)))}

\* ------------------------------------------------------------------------
\* make_err
\* ------------------------------------------------------------------------
min(a, b) == IF a <= b THEN a ELSE b

\* <&mut [u8] as Write>::write_all on a buffer of LITERAL_CAPACITY zero bytes:
\* copies what fits, and fails when not everything did
write_all(bytes) ==
  [buf |-> [i \in 1..LITERAL_CAPACITY |-> IF i <= Len(bytes) THEN bytes[i] ELSE 0],
   ok |-> Len(bytes) <= LITERAL_CAPACITY]

Panic == [op |-> "panic", arg |-> <<>>]

\* out.write_all(str.as_bytes()).unwrap(); Err(... Literal((buf, len as u8)))
make_err(str) ==
  IF ~write_all(str).ok THEN Panic
  ELSE Return(Err(DataRef(RefBlob(Literal(write_all(str).buf,
                                          Len(str) % U8_RANGE)))))

message(n, seed) == [i \in 1..n |-> 32 + ((i * seed) % 90)]

MsgLens ==
  0..(LITERAL_CAPACITY + MaxMsgExtra)
  \cup {U8_RANGE - 1, U8_RANGE, U8_RANGE + LITERAL_CAPACITY}

Messages == {message(n, seed) : n \in MsgLens, seed \in {1, 7}}

\* ------------------------------------------------------------------------
\* TreeName::create on trees whose elements have large footprints
\* ------------------------------------------------------------------------
H_bigblob == HandleData(DataObject(ObjBlob(BName(1, MaxBlobLen))))

\* the elements a tree is created from: thunks, blobs, and the tree created last
FpElems(cur) ==
  {H_thunk, H_obj, H_bigblob}
  \cup (IF cur.set THEN {HandleData(DataObject(ObjTree(cur.t)))} ELSE {})

\* what the build makes of `base + fold`: with overflow checks the addition
\* panics, without them it wraps
create_outcomes(treedata) ==
  IF create_footprint_overflows(treedata)
  THEN {[panic |-> TRUE], [panic |-> FALSE, footprint |-> create_footprint(treedata)]}
  ELSE {[panic |-> FALSE, footprint |-> create_footprint(treedata)]}

\* the name of a tree of copies of one eq element, under an opaque pointer
nested(level, footprint) ==
  [name |-> level, size |-> MaxFpElems, footprint |-> footprint,
   eq |-> TRUE, tag |-> create_tag]

\* ------------------------------------------------------------------------
\* State
\* ------------------------------------------------------------------------
VARIABLES
  input,      \* the call the caller made: eval(h), make_err(msg) or create
  ctl,        \* the point of control: a call being made or a result returned
  stack,      \* the frames of the calls in progress, innermost first
  run,        \* 1: eval(input); 2: eval of the relaxed result of run 1
  first,      \* the value run 1 returned
  nThink,     \* calls of think made so far
  nApply,     \* calls of apply made so far
  nSelect,    \* calls of select made so far
  firstErr,   \* the first failure a collaborator returned, and the counts then
  lastExecute,\* the last completed execute: its encode, thinks and result
  lastApply,  \* the last call of apply: the combination and what was passed
  cur,        \* the tree created last by nesting
  created     \* the last TreeName::create: its elements and its outcomes

vars == <<input, ctl, stack, run, first, nThink, nApply, nSelect, firstErr,
          lastExecute, lastApply, cur, created>>

None == [set |-> FALSE]

done == input.op = "eval" /\ ctl.op = "ret" /\ stack = <<>>

Init ==
  /\ input = [op |-> "none"]
  /\ ctl = Call("idle", <<>>)
  /\ stack = <<>>
  /\ run = 1
  /\ first = None
  /\ nThink = 0
  /\ nApply = 0
  /\ nSelect = 0
  /\ firstErr = None
  /\ lastExecute = None
  /\ lastApply = None
  /\ cur = None
  /\ created = None

\* the caller hands a handle to eval
Start ==
  /\ ctl.op = "idle"
  /\ input.op = "none"
  /\ \E h \in Inputs :
       /\ input' = [op |-> "eval", h |-> h]
       /\ ctl' = Call("eval", h)
  /\ UNCHANGED <<stack, run, first, nThink, nApply, nSelect, firstErr,
                 lastExecute, lastApply, cur, created>>

\* the caller builds an error
MakeErr ==
  /\ ctl.op = "idle"
  /\ input.op = "none"
  /\ \E msg \in Messages :
       /\ input' = [op |-> "make_err", msg |-> msg]
       /\ ctl' = make_err(msg)
  /\ UNCHANGED <<stack, run, first, nThink, nApply, nSelect, firstErr,
                 lastExecute, lastApply, cur, created>>

\* the caller creates a tree, and the same tree with the element at one place
\* replaced by an element of a footprint at least as large; the next tree it
\* creates is a nested one
CreateTree ==
  /\ ctl.op = "idle"
  /\ input.op \in {"none", "create"}
  /\ ~created.set
  /\ \E treedata \in SeqsUpTo(FpElems(cur), MaxFpElems) \ {<<>>} :
     \E i \in 1..Len(treedata) :
     \E e \in FpElems(cur) :
     \E o \in create_outcomes(treedata) :
     \E oraised \in create_outcomes([treedata EXCEPT ![i] = e]) :
       /\ u32_le(HandleType_footprint(treedata[i]), HandleType_footprint(e))
       /\ created' = [set |-> TRUE, treedata |-> treedata, out |-> o,
                      raised |-> oraised]
  /\ input' = [op |-> "create"]
  /\ UNCHANGED <<ctl, stack, run, first, nThink, nApply, nSelect, firstErr,
                 lastExecute, lastApply, cur>>

\* the caller creates a tree of MaxFpElems copies of the tree created last
\* (of the largest blob, to begin with), as long as its footprint fits
Nest ==
  /\ ctl.op = "idle"
  /\ input.op \in {"none", "create"}
  /\ LET elem == IF cur.set THEN HandleData(DataObject(ObjTree(cur.t)))
                 ELSE H_bigblob
         treedata == [i \in 1..MaxFpElems |-> elem]
         level == IF cur.set THEN cur.t.name + 1 ELSE 1
     IN  /\ ~create_footprint_overflows(treedata)
         /\ cur' = [set |-> TRUE,
                    t |-> nested(level, create_footprint(treedata))]
  /\ created' = None
  /\ input' = [op |-> "create"]
  /\ UNCHANGED <<ctl, stack, run, first, nThink, nApply, nSelect, firstErr,
                 lastExecute, lastApply>>

Eval ==
  /\ ctl.op = "eval"
  /\ LET s == eval_step(ctl.arg)
     IN  /\ stack' = s.frames \o stack
         /\ ctl' = s.ctl
  /\ UNCHANGED <<input, run, first, nThink, nApply, nSelect, firstErr,
                 lastExecute, lastApply, cur, created>>

Execute ==
  /\ ctl.op = "execute"
  /\ LET s == execute_step(ctl.arg)
     IN  /\ stack' = s.frames \o stack
         /\ ctl' = s.ctl
  /\ UNCHANGED <<input, run, first, nThink, nApply, nSelect, firstErr,
                 lastExecute, lastApply, cur, created>>

Think ==
  /\ ctl.op = "think"
  /\ nThink < MaxThink
  /\ LET s == think_step(ctl.arg)
     IN  /\ stack' = s.frames \o stack
         /\ ctl' = s.ctl
  /\ nThink' = nThink + 1
  /\ UNCHANGED <<input, run, first, nApply, nSelect, firstErr,
                 lastExecute, lastApply, cur, created>>

\* a try_map in progress still has elements to visit
pending(stk) ==
  \E i \in 1..Len(stk) : stk[i].f = "try_map" /\ stk[i].rest # <<>>

noteErr(res) ==
  IF ~res.ok /\ ~firstErr.set
  THEN [set |-> TRUE, d |-> res.v, nThink |-> nThink,
        nApply |-> nApply', nSelect |-> nSelect',
        depth |-> Len(stack), pending |-> pending(stack)]
  ELSE firstErr

Apply ==
  /\ ctl.op = "apply"
  /\ nApply' = nApply + 1
  /\ nSelect' = nSelect
  /\ \E res \in ApplyResults :
       /\ ctl' = Return(res)
       /\ firstErr' = noteErr(res)
  /\ UNCHANGED <<input, stack, run, first, nThink, lastExecute, lastApply,
                 cur, created>>

Select ==
  /\ ctl.op = "select"
  /\ nSelect' = nSelect + 1
  /\ nApply' = nApply
  /\ \E res \in SelectResults :
       /\ ctl' = Return(res)
       /\ firstErr' = noteErr(res)
  /\ UNCHANGED <<input, stack, run, first, nThink, lastExecute, lastApply,
                 cur, created>>

TryMapNext ==
  /\ ctl.op = "iter"
  /\ LET frame == Head(stack)
         s == try_map_iter(frame)
     IN  /\ stack' = s.frames \o Tail(stack)
         /\ ctl' = s.ctl
         /\ lastApply' =
              IF s.ctl.op = "apply"
              THEN [set |-> TRUE, comb |-> frame.self, arg |-> s.ctl.arg,
                    started |-> frame.started, results |-> frame.results]
              ELSE lastApply
  /\ UNCHANGED <<input, run, first, nThink, nApply, nSelect, firstErr,
                 lastExecute, cur, created>>

ReturnToTryMap ==
  /\ ctl.op = "ret"
  /\ stack # <<>>
  /\ Head(stack).f = "try_map"
  /\ LET s == try_map_resume(Head(stack), ctl.arg)
     IN  /\ stack' = s.frames \o Tail(stack)
         /\ ctl' = s.ctl
  /\ UNCHANGED <<input, run, first, nThink, nApply, nSelect, firstErr,
                 lastExecute, lastApply, cur, created>>

ReturnToExecute ==
  /\ ctl.op = "ret"
  /\ stack # <<>>
  /\ Head(stack).f = "execute"
  /\ LET frame == Head(stack)
         s == execute_resume(frame, ctl.arg)
     IN  /\ stack' = s.frames \o Tail(stack)
         /\ ctl' = s.ctl
         /\ lastExecute' =
              IF s.ctl.op = "ret"
              THEN [set |-> TRUE, e |-> frame.e, thunks |-> frame.thunks,
                    results |-> Append(frame.results, ctl.arg),
                    out |-> s.ctl.arg]
              ELSE lastExecute
  /\ UNCHANGED <<input, run, first, nThink, nApply, nSelect, firstErr,
                 lastApply, cur, created>>

ReturnToEval ==
  /\ ctl.op = "ret"
  /\ stack # <<>>
  /\ Head(stack).f = "eval_encode"
  /\ LET s == eval_encode_resume(ctl.arg)
     IN  /\ stack' = s.frames \o Tail(stack)
         /\ ctl' = s.ctl
  /\ UNCHANGED <<input, run, first, nThink, nApply, nSelect, firstErr,
                 lastExecute, lastApply, cur, created>>

\* the caller evaluates the relaxed result again
ReEval ==
  /\ done
  /\ run = 1
  /\ ctl.arg.ok
  /\ run' = 2
  /\ first' = [set |-> TRUE, v |-> ctl.arg.v]
  /\ ctl' = Call("eval", Value_relax(ctl.arg.v))
  /\ UNCHANGED <<input, stack, nThink, nApply, nSelect, firstErr,
                 lastExecute, lastApply, cur, created>>

Next ==
  \/ Start
  \/ MakeErr
  \/ CreateTree
  \/ Nest
  \/ Eval
  \/ Execute
  \/ Think
  \/ Apply
  \/ Select
  \/ TryMapNext
  \/ ReturnToTryMap
  \/ ReturnToExecute
  \/ ReturnToEval
  \/ ReEval

Spec == Init /\ [][Next]_vars

\* ------------------------------------------------------------------------
\* Properties
\* ------------------------------------------------------------------------
RECURSIVE NoAccessibleEncode(_)
NoAccessibleEncode(x) ==
  /\ x.k # "Encode"
  /\ is_accessible_tree(x) =>
       \A i \in 1..Len(TreeName_load(x.v.v.v)) :
         NoAccessibleEncode(TreeName_load(x.v.v.v)[i])

is_tree(x) == x.k = "Data" /\ x.v.v.k = "Tree"

RECURSIVE NoBareThunk(_)
NoBareThunk(x) ==
  /\ x.k # "Thunk"
  /\ is_tree(x) =>
       \A i \in 1..Len(TreeName_load(x.v.v.v)) :
         NoBareThunk(TreeName_load(x.v.v.v)[i])

\* an element is eq by what its name says
ElemEqByFlag(e) == e.k = "Data" /\ (e.v.v.k = "Blob" \/ e.v.v.v.eq)

RECURSIVE TreeEqRight(_)
DataEqRight(d) == d.v.k = "Tree" => TreeEqRight(d.v.v)
ThunkEqRight(th) ==
  IF th.k = "Identification" THEN DataEqRight(th.v) ELSE TreeEqRight(th.v)
ElemEqRight(x) ==
  IF x.k = "Data" THEN DataEqRight(x.v)
  ELSE IF x.k = "Thunk" THEN ThunkEqRight(x.v)
  ELSE ThunkEqRight(x.v.thunk)
TreeEqRight(t) ==
  /\ t.eq = (\A i \in 1..Len(TreeName_load(t)) : ElemEqByFlag(TreeName_load(t)[i]))
  /\ \A i \in 1..Len(TreeName_load(t)) : ElemEqRight(TreeName_load(t)[i])

evalDone == done /\ run = 1

\* C1: when eval returns Ok(v), v is no Encode and no Encode is an element of
\* an accessible tree reachable from v through accessible trees, whatever
\* apply and select returned.
C1_NoAccessibleEncode ==
  (done /\ ctl.arg.ok) => NoAccessibleEncode(ctl.arg.v)

C1_Witness ==
  /\ evalDone /\ ctl.arg.ok
  /\ input.h.k = "Encode"
  /\ nApply > 0 /\ nThink >= 2
  /\ is_accessible_tree(ctl.arg.v)
  /\ ctl.arg.v.v.v.v.size = 2

\* C2: once a collaborator has returned Err(d), control only returns that
\* same Err(d) up through every frame: no think, apply or select is made
\* afterwards, nothing is evaluated, and the outermost result is Err(d).
C2_FailuresShortCircuit ==
  (input.op = "eval" /\ firstErr.set) =>
    /\ ctl = Return(Err(firstErr.d))
    /\ run = 1
    /\ nThink = firstErr.nThink
    /\ nApply = firstErr.nApply
    /\ nSelect = firstErr.nSelect

C2_Witness ==
  /\ done /\ firstErr.set
  /\ firstErr.depth >= 3 /\ firstErr.pending
  /\ ctl.arg = Err(firstErr.d)

\* C3: an execute that returns Ok has called think on the encode's thunk,
\* then on each thunk think returned, has stopped at the first Data result d,
\* and returns d for None, Data::Object(lift of d) for Some(true) and
\* Data::Ref(lower of d) for Some(false).
C3_ExecuteDrains ==
  (lastExecute.set /\ lastExecute.out.ok) =>
    LET r == lastExecute.results
        t == lastExecute.thunks
        n == Len(r)
        a == lastExecute.e.accessibility
        out == lastExecute.out.v
    IN  /\ n >= 1 /\ Len(t) = n
        /\ t[1] = lastExecute.e.thunk
        /\ \A i \in 1..(n - 1) :
             r[i].ok /\ r[i].v.k = "Thunk" /\ t[i + 1] = r[i].v.v
        /\ r[n].ok /\ r[n].v.k = "Data"
        /\ a = "None" => out = r[n].v.v
        /\ a = "SomeTrue" => out.k = "Object" /\ out.v = Data_lift(r[n].v.v)
        /\ a = "SomeFalse" => out.k = "Ref" /\ out.v = Data_lower(r[n].v.v)

C3_Witness ==
  /\ lastExecute.set /\ lastExecute.out.ok
  /\ Len(lastExecute.results) >= 2
  /\ lastExecute.e.accessibility = "SomeTrue"
  /\ lastExecute.results[Len(lastExecute.results)].v.v.k = "Ref"
  /\ lastExecute.results[Len(lastExecute.results)].v.v.v.k = "Tree"

\* C4: apply is called only with the tree try_map built for an Application:
\* every element of the combination was handed to eval, in order, each
\* returned Ok, the tree passed has those results in the same order and the
\* same size, and none of them holds an accessible Encode; each apply
\* belongs to a think of its own.
C4_ApplyAfterEval ==
  /\ nApply + nSelect <= nThink
  /\ ctl.op = "apply" => (lastApply.set /\ lastApply.arg = ctl.arg)
  /\ lastApply.set =>
       LET comb == TreeName_load(lastApply.comb)
           arg == TreeName_load(lastApply.arg)
       IN  /\ lastApply.started = comb
           /\ Len(lastApply.results) = Len(comb)
           /\ Len(arg) = Len(comb)
           /\ lastApply.arg.size = lastApply.comb.size
           /\ \A i \in 1..Len(comb) :
                /\ lastApply.results[i].ok
                /\ arg[i] = lastApply.results[i].v
                /\ arg[i].ty = "Value"
                /\ NoAccessibleEncode(arg[i])
                /\ comb[i].k = "Thunk" => arg[i] = ValueThunk(comb[i].v)

C4_Witness ==
  /\ ctl.op = "apply"
  /\ lastApply.comb.size = 2
  /\ TreeName_load(lastApply.comb)[1].k = "Encode"
  /\ ~NoAccessibleEncode(TreeName_load(lastApply.comb)[2])

\* C5: eval of a bare thunk returns that thunk as a value and calls nothing;
\* a bare thunk that is an element of an accessible tree stays in its place;
\* think is reached only through the execute of an Encode.
C5_ThunkNotForced ==
  /\ (evalDone /\ input.h.k = "Thunk") =>
       /\ ctl.arg = Ok(ValueThunk(input.h.v))
       /\ nThink = 0 /\ nApply = 0 /\ nSelect = 0
  /\ (evalDone /\ ctl.arg.ok /\ is_accessible_tree(input.h)) =>
       LET in == TreeName_load(input.h.v.v.v)
           out == TreeName_load(ctl.arg.v.v.v.v)
       IN  /\ Len(out) = Len(in)
           /\ \A i \in 1..Len(in) :
                in[i].k = "Thunk" => out[i] = ValueThunk(in[i].v)
  /\ ctl.op = "think" => (stack # <<>> /\ Head(stack).f = "execute")
  /\ ctl.op = "execute" => (stack # <<>> /\ Head(stack).f = "eval_encode")
  /\ (input.op = "eval" /\ nThink > 0) => ~NoAccessibleEncode(input.h)

C5_Witness ==
  /\ evalDone /\ ctl.arg.ok
  /\ is_accessible_tree(input.h)
  /\ input.h.v.v.v.size = 2
  /\ TreeName_load(input.h.v.v.v)[1].k = "Encode"
  /\ TreeName_load(input.h.v.v.v)[2].k = "Thunk"
  /\ nThink > 0

\* C6: make_err returns, for a message of any length n, Err of a Ref to a
\* literal blob whose length is min(n, 30) and whose content is the first
\* min(n, 30) bytes of the message.
C6_MakeErrTruncates ==
  input.op = "make_err" =>
    /\ ctl.op = "ret"
    /\ ~ctl.arg.ok
    /\ ctl.arg.v.k = "Ref" /\ ctl.arg.v.v.k = "Blob"
    /\ ctl.arg.v.v.v.k = "Literal"
    /\ ctl.arg.v.v.v.length = min(Len(input.msg), LITERAL_CAPACITY)
    /\ ~BlobName_load_panics(ctl.arg.v.v.v)
    /\ BlobName_load(ctl.arg.v.v.v)
         = SubSeq(input.msg, 1, min(Len(input.msg), LITERAL_CAPACITY))

\* C7: the footprint create computes is at least the pages of the tree's own
\* handles, does not decrease when an element's footprint increases, and the
\* computation neither panics nor wraps.
C7_FootprintSaturates ==
  created.set =>
    /\ ~created.out.panic
    /\ ~created.raised.panic
    /\ u32_le(create_base(created.treedata), created.out.footprint)
    /\ u32_le(created.out.footprint, created.raised.footprint)

\* C8: lower of an Object makes no call of the storage backend.
C8_LowerTouchesNoBackend ==
  (/\ lastExecute.set /\ lastExecute.out.ok
   /\ lastExecute.e.accessibility = "SomeFalse"
   /\ lastExecute.results[Len(lastExecute.results)].v.v.k = "Object") =>
    Object_lower_calls(lastExecute.results[Len(lastExecute.results)].v.v.v) = 0

\* C9: in every tree name the program holds or produces (by create, try_map,
\* relax, lift or lower), eq is true iff every element is Data that is a blob
\* or a tree whose name is eq; a Thunk or Encode element makes it false.
C9_EqPropagation ==
  /\ input.op = "eval" => ElemEqRight(input.h)
  /\ ctl.op = "eval" => ElemEqRight(ctl.arg)
  /\ ctl.op = "apply" => TreeEqRight(ctl.arg)
  /\ (done /\ ctl.arg.ok) =>
       (ElemEqRight(ctl.arg.v) /\ ElemEqRight(Value_relax(ctl.arg.v)))
  /\ (lastExecute.set /\ lastExecute.out.ok) => DataEqRight(lastExecute.out.v)

C9_Witness ==
  /\ evalDone /\ ctl.arg.ok
  /\ is_accessible_tree(ctl.arg.v)
  /\ ctl.arg.v.v.v.v.size = 2
  /\ ~ctl.arg.v.v.v.v.eq
  /\ is_accessible_tree(TreeName_load(ctl.arg.v.v.v.v)[1])
  /\ TreeName_load(ctl.arg.v.v.v.v)[1].v.v.v.eq
  /\ TreeName_load(ctl.arg.v.v.v.v)[2].k = "Thunk"

\* C10 as stated: when no bare thunk is reachable from the value v that eval
\* returned, eval of v relaxed returns a value equal to v.
C10_FixpointUnlessBareThunk ==
  (done /\ run = 2 /\ NoBareThunk(first.v)) =>
    (ctl.arg.ok /\ Value_eq(ctl.arg.v, first.v))

\* C10 as amended: when the value v that eval returned is eq (it is Data and
\* neither a Thunk nor an Encode is reachable from it through any tree,
\* accessible or not), eval of v relaxed returns a value equal to v.
C10_FixpointOfEqValues ==
  (done /\ run = 2 /\ HandleType_is_eq(first.v)) =>
    (ctl.arg.ok /\ Value_eq(ctl.arg.v, first.v))

C10_Witness ==
  /\ done /\ run = 2
  /\ HandleType_is_eq(first.v)
  /\ input.h.k = "Encode"
  /\ is_accessible_tree(first.v)
  /\ first.v.v.v.v.size = 2
  /\ first.v.v.v.v.tag
====
